---- MODULE Spec2Model ----
(***************************************************************************)
(* gsync.Map[K, V]: the generic wrapper around sync.Map of src/map.go.     *)
(*                                                                         *)
(* The model instantiates the wrapper as the repository's test does,      *)
(* Map[string, int]: key i of the model is the Go key fmt.Sprint(i), the   *)
(* values are ints and the zero value of V is 0.                           *)
(*                                                                         *)
(* Every method of sync.Map that the wrapper calls on one key (Load,      *)
(* Store, LoadOrStore, LoadAndDelete, Delete, Swap, CompareAndSwap,        *)
(* CompareAndDelete) is one atomic step.  sync.Map.Range is one step per   *)
(* key: no key is visited twice, and the mapping a visit reports for a key *)
(* is any mapping the key had between the start of the Range call and the  *)
(* visit (the variable field cap of a traversal holds that choice).        *)
(*                                                                         *)
(* The callers are goroutines; each is idle, or inside one of the          *)
(* wrapper's methods that take more than one step (Compute, ComputeAndGet, *)
(* ComputeAndLoad and the traversals).                                     *)
(***************************************************************************)
EXTENDS Integers, Sequences, FiniteSets, TLC

\* Bounds of the model.
NumProcs == 2
NumKeys == 2
MaxValue == 2
MaxCalls == 2

Procs == 1..NumProcs
Keys == 1..NumKeys
Values == 0..MaxValue

\* The zero value of V (var value V of Load, LoadAndDelete).
Zero == 0

VARIABLES
    m,      \* the contents of data: a function from the present keys to values
    pc,     \* pc[t]: where goroutine t is
    loc,    \* loc[t]: the locals of the method t is in
    last,   \* what the step just taken returned (NoRet: it returned from no call)
    log,    \* the calls recorded so far, in the order they returned
    rec     \* the methods whose calls are recorded (a scenario's choice)

vars == <<m, pc, loc, last, log, rec>>

----------------------------------------------------------------------------
\* sync.Map's contents

Present(mm, k) == k \in DOMAIN mm

Put(mm, k, v) == [x \in DOMAIN mm \cup {k} |-> IF x = k THEN v ELSE mm[x]]

Del(mm, k) == [x \in DOMAIN mm \ {k} |-> mm[x]]

EmptyMap == [x \in {} |-> Zero]

\* value, _ = m.Load(key): the zero value when the key is absent
ValueOr(mm, k) == IF Present(mm, k) THEN mm[k] ELSE Zero

----------------------------------------------------------------------------
\* Locals and results

NoIntf == [k \in Keys |-> "none"]

NoLoc ==
    [op |-> "none", key |-> 0, old |-> Zero, new |-> Zero, fn |-> "none",
     visited |-> {}, cap |-> EmptyMap, stop |-> FALSE, n |-> 0, seq |-> <<>>,
     pre |-> {}, intf |-> NoIntf]

Ret(op, k, arg, val, ok) ==
    [proc |-> 0, op |-> op, key |-> k, arg |-> arg, val |-> val, ok |-> ok,
     panic |-> FALSE, seq |-> <<>>, str |-> "",
     fn |-> "none", old |-> Zero, pre |-> {}, intf |-> NoIntf,
     was |-> EmptyMap]

NoRet == Ret("none", 0, Zero, Zero, FALSE)

\* a.(V) on the nil that sync.Map returns for an absent key: a run-time panic
Panic(op, k, arg) == [Ret(op, k, arg, Zero, FALSE) EXCEPT !.panic = TRUE]

----------------------------------------------------------------------------
\* What a step of one goroutine that takes effect on key k does to the
\* methods other goroutines are inside of.  eff is "store" (k now maps to a
\* value this step wrote), "del" (this step removed k) or "none".

Worse(a, b) ==
    IF a = "store" \/ b = "store" THEN "store"
    ELSE IF a = "del" \/ b = "del" THEN "del" ELSE "none"

\* The callbacks of Range, Values and String use the value; those of Len,
\* Keys and Clear ignore it, and for them the zero value stands for it.
UsesValue(op) == op \in {"Range", "Values", "String"}

Reported(op, mm) == [x \in DOMAIN mm |-> IF UsesValue(op) THEN mm[x] ELSE Zero]

CapAfter(op, cap, k, newm) ==
    IF Present(newm, k) THEN Put(cap, k, Reported(op, newm)[k]) ELSE Del(cap, k)

Observe(l, p, k, eff, newm, takes) ==
    IF eff = "none" \/ pc[p] = "idle" THEN l
    ELSE IF pc[p] = "range"
    THEN [l EXCEPT !.intf[k] = Worse(@, eff),
                   !.cap = IF k \notin l.visited /\ takes
                           THEN CapAfter(l.op, @, k, newm) ELSE @]
    ELSE IF l.key = k THEN [l EXCEPT !.intf[k] = Worse(@, eff)]
    ELSE l

\* loc' when t's step has the effect eff on k and leaves t's locals as own
Effect(t, own, k, eff, newm) ==
    \E takes \in SUBSET {p \in Procs \ {t} :
                            /\ eff # "none"
                            /\ pc[p] = "range"
                            /\ k \notin loc[p].visited
                            /\ CapAfter(loc[p].op, loc[p].cap, k, newm) # loc[p].cap} :
        loc' = [p \in Procs |->
                   IF p = t THEN own
                   ELSE Observe(loc[p], p, k, eff, newm, p \in takes)]

\* what log keeps of a call
Brief(r) ==
    [proc |-> r.proc, op |-> r.op, key |-> r.key, arg |-> r.arg,
     old |-> r.old, val |-> r.val, ok |-> r.ok, fn |-> r.fn,
     had |-> Present(r.was, r.key)]

\* t returns r: last' is r, with who returned and the contents of the map
\* just before the step that returns
Return(t, r) ==
    /\ last' = [r EXCEPT !.proc = t, !.was = m]
    /\ log' = IF r.op \in rec THEN Append(log, Brief(last')) ELSE log
    /\ UNCHANGED rec

\* a step that returns from no call
NoReturn ==
    /\ last' = NoRet
    /\ UNCHANGED <<log, rec>>

----------------------------------------------------------------------------
\* The zero Map, with the calls of the methods in r recorded
InitRecording(r) ==
    /\ m = EmptyMap
    /\ pc = [t \in Procs |-> "idle"]
    /\ loc = [t \in Procs |-> NoLoc]
    /\ last = NoRet
    /\ log = <<>>
    /\ rec = r

Init == InitRecording({})

----------------------------------------------------------------------------
\* The single-step methods

\* Load returning its named result, the zero value, when the key is present
LoadReturnsZero(t, k) ==
    /\ pc[t] = "idle"
    /\ Return(t, Ret("Load", k, Zero, Zero, Present(m, k)))
    /\ UNCHANGED <<m, pc, loc>>

\* Load without the check of ok before v.(V), as Swap is written
LoadPanicsWhenAbsent(t, k) ==
    /\ pc[t] = "idle"
    /\ Return(t, IF Present(m, k) THEN Ret("Load", k, Zero, m[k], TRUE)
                 ELSE Panic("Load", k, Zero))
    /\ UNCHANGED <<m, pc, loc>>

Load(t, k) ==
    /\ pc[t] = "idle"
    /\ Return(t, Ret("Load", k, Zero, ValueOr(m, k), Present(m, k)))
    /\ UNCHANGED <<m, pc, loc>>

Get(t, k) ==
    /\ pc[t] = "idle"
    /\ Return(t, Ret("Get", k, Zero, ValueOr(m, k), FALSE))
    /\ UNCHANGED <<m, pc, loc>>

Has(t, k) ==
    /\ pc[t] = "idle"
    /\ Return(t, Ret("Has", k, Zero, Zero, Present(m, k)))
    /\ UNCHANGED <<m, pc, loc>>

\* LoadAndDelete as a Load that leaves the key in place
LoadAndDeleteKeeps(t, k) ==
    /\ pc[t] = "idle"
    /\ m' = m
    /\ Return(t, Ret("LoadAndDelete", k, Zero, ValueOr(m, k), Present(m, k)))
    /\ UNCHANGED <<pc, loc>>

LoadAndDelete(t, k) ==
    /\ pc[t] = "idle"
    /\ m' = Del(m, k)
    /\ Return(t, Ret("LoadAndDelete", k, Zero, ValueOr(m, k), Present(m, k)))
    /\ Effect(t, loc[t], k, IF Present(m, k) THEN "del" ELSE "none", m')
    /\ UNCHANGED pc

\* Store that loses the other keys
StoreDropsOthers(t, k, v) ==
    /\ pc[t] = "idle"
    /\ m' = Put(EmptyMap, k, v)
    /\ Return(t, Ret("Store", k, v, Zero, FALSE))
    /\ Effect(t, loc[t], k, "store", m')
    /\ UNCHANGED pc

Store(t, k, v) ==
    /\ pc[t] = "idle"
    /\ m' = Put(m, k, v)
    /\ Return(t, Ret("Store", k, v, Zero, FALSE))
    /\ Effect(t, loc[t], k, "store", m')
    /\ UNCHANGED pc

\* a LoadOrStore that stores into a fresh map
LoadOrStoreMapFresh(mm, k, v) ==
    IF Present(mm, k) THEN mm ELSE Put(EmptyMap, k, v)

\* sync.Map.LoadOrStore: the value present, or else the value given, stored
LoadOrStoreMap(mm, k, v) == IF Present(mm, k) THEN mm ELSE Put(mm, k, v)

\* LoadOrStore returning the value passed in place of a.(V)
LoadOrStoreReturnsArg(t, k, v) ==
    /\ pc[t] = "idle"
    /\ m' = LoadOrStoreMap(m, k, v)
    /\ Return(t, Ret("LoadOrStore", k, v, v, Present(m, k)))
    /\ Effect(t, loc[t], k, IF Present(m, k) THEN "none" ELSE "store", m')
    /\ UNCHANGED pc

LoadOrStore(t, k, v) ==
    /\ pc[t] = "idle"
    /\ m' = LoadOrStoreMap(m, k, v)
    /\ Return(t, Ret("LoadOrStore", k, v, m'[k], Present(m, k)))
    /\ Effect(t, loc[t], k, IF Present(m, k) THEN "none" ELSE "store", m')
    /\ UNCHANGED pc

GetOrStore(t, k, v) ==
    /\ pc[t] = "idle"
    /\ m' = LoadOrStoreMap(m, k, v)
    /\ Return(t, Ret("GetOrStore", k, v, m'[k], FALSE))
    /\ Effect(t, loc[t], k, IF Present(m, k) THEN "none" ELSE "store", m')
    /\ UNCHANGED pc

\* Delete that leaves the key in place
DeleteKeeps(t, k) ==
    /\ pc[t] = "idle"
    /\ Return(t, Ret("Delete", k, Zero, Zero, FALSE))
    /\ UNCHANGED <<m, pc, loc>>

\* Delete written as LoadAndDelete with an unchecked v.(V): it panics when
\* the key is absent
DeletePanicsWhenAbsent(t, k) ==
    /\ pc[t] = "idle"
    /\ m' = Del(m, k)
    /\ Return(t, IF Present(m, k) THEN Ret("Delete", k, Zero, Zero, FALSE)
                 ELSE Panic("Delete", k, Zero))
    /\ Effect(t, loc[t], k, IF Present(m, k) THEN "del" ELSE "none", m')
    /\ UNCHANGED pc

Delete(t, k) ==
    /\ pc[t] = "idle"
    /\ m' = Del(m, k)
    /\ Return(t, Ret("Delete", k, Zero, Zero, FALSE))
    /\ Effect(t, loc[t], k, IF Present(m, k) THEN "del" ELSE "none", m')
    /\ UNCHANGED pc

\* a, loaded := m.data.Swap(key, new) stores new; a is nil when the key was
\* absent, and a.(V) then panics after the store has taken effect.
SwapResult(mm, k, new) ==
    IF Present(mm, k) THEN Ret("Swap", k, new, mm[k], TRUE)
    ELSE Panic("Swap", k, new)

Swap(t, k, new) ==
    /\ pc[t] = "idle"
    /\ m' = Put(m, k, new)
    /\ Return(t, SwapResult(m, k, new))
    /\ Effect(t, loc[t], k, "store", m')
    /\ UNCHANGED pc

\* sync.Map.CompareAndSwap swaps iff the key is present with a value equal to old
CasHits(mm, k, old) == Present(mm, k) /\ mm[k] = old

\* CompareAndSwap passing new and old to sync.Map in the wrong order
CompareAndSwapArgsSwapped(t, k, old, new) ==
    /\ pc[t] = "idle"
    /\ m' = IF CasHits(m, k, new) THEN Put(m, k, old) ELSE m
    /\ Return(t, [Ret("CompareAndSwap", k, new, Zero, CasHits(m, k, new))
                    EXCEPT !.old = old])
    /\ Effect(t, loc[t], k, IF CasHits(m, k, new) THEN "store" ELSE "none", m')
    /\ UNCHANGED pc

CompareAndSwap(t, k, old, new) ==
    /\ pc[t] = "idle"
    /\ m' = IF CasHits(m, k, old) THEN Put(m, k, new) ELSE m
    /\ Return(t, [Ret("CompareAndSwap", k, new, Zero, CasHits(m, k, old))
                    EXCEPT !.old = old])
    /\ Effect(t, loc[t], k, IF CasHits(m, k, old) THEN "store" ELSE "none", m')
    /\ UNCHANGED pc

\* CompareAndDelete that deletes whatever value the key has
CompareAndDeleteAlways(t, k, old) ==
    /\ pc[t] = "idle"
    /\ m' = Del(m, k)
    /\ Return(t, [Ret("CompareAndDelete", k, Zero, Zero, Present(m, k))
                    EXCEPT !.old = old])
    /\ Effect(t, loc[t], k, IF Present(m, k) THEN "del" ELSE "none", m')
    /\ UNCHANGED pc

CompareAndDelete(t, k, old) ==
    /\ pc[t] = "idle"
    /\ m' = IF CasHits(m, k, old) THEN Del(m, k) ELSE m
    /\ Return(t, [Ret("CompareAndDelete", k, Zero, Zero, CasHits(m, k, old))
                    EXCEPT !.old = old])
    /\ Effect(t, loc[t], k, IF CasHits(m, k, old) THEN "del" ELSE "none", m')
    /\ UNCHANGED pc

----------------------------------------------------------------------------
\* Compute, ComputeAndGet, ComputeAndLoad: m.Get(key), then f, then the store

\* The transforms the callers pass
Fns == {"succ", "top"}

Apply(fn, v) == IF fn = "succ" THEN (v + 1) % (MaxValue + 1) ELSE MaxValue

\* the argument f(m.Get(key)) is evaluated before the store is called
Computed(op, k, fn) ==
    [NoLoc EXCEPT !.op = op, !.key = k, !.fn = fn, !.pre = DOMAIN m,
                  !.old = ValueOr(m, k), !.new = Apply(fn, ValueOr(m, k))]

ComputeRead(t, op, k, fn) ==
    /\ pc[t] = "idle"
    /\ pc' = [pc EXCEPT ![t] = "compute"]
    /\ loc' = [loc EXCEPT ![t] = Computed(op, k, fn)]
    /\ NoReturn
    /\ UNCHANGED m

\* what the call returns, with what it read, the keys present when it began
\* and what other callers did to its key since
Computing(t, val, ok) ==
    [Ret(loc[t].op, loc[t].key, loc[t].new, val, ok)
        EXCEPT !.fn = loc[t].fn, !.old = loc[t].old, !.pre = loc[t].pre,
               !.intf = loc[t].intf]

ComputeGet(t, k, fn) == ComputeRead(t, "Compute", k, fn)

\* Compute that applies f to the value the key has at the store
ComputeStoreAtomic(t) ==
    /\ pc[t] = "compute" /\ loc[t].op = "Compute"
    /\ m' = Put(m, loc[t].key, Apply(loc[t].fn, ValueOr(m, loc[t].key)))
    /\ Return(t, Computing(t, Zero, FALSE))
    /\ pc' = [pc EXCEPT ![t] = "idle"]
    /\ Effect(t, NoLoc, loc[t].key, "store", m')

\* Compute that stores with GetOrStore, as ComputeAndGet does
ComputeStoreKeepsExisting(t) ==
    /\ pc[t] = "compute" /\ loc[t].op = "Compute"
    /\ m' = LoadOrStoreMap(m, loc[t].key, loc[t].new)
    /\ Return(t, Computing(t, Zero, FALSE))
    /\ pc' = [pc EXCEPT ![t] = "idle"]
    /\ Effect(t, NoLoc, loc[t].key,
              IF Present(m, loc[t].key) THEN "none" ELSE "store", m')

ComputeStore(t) ==
    /\ pc[t] = "compute" /\ loc[t].op = "Compute"
    /\ m' = Put(m, loc[t].key, loc[t].new)
    /\ Return(t, Computing(t, Zero, FALSE))
    /\ pc' = [pc EXCEPT ![t] = "idle"]
    /\ Effect(t, NoLoc, loc[t].key, "store", m')

ComputeAndGetGet(t, k, fn) == ComputeRead(t, "ComputeAndGet", k, fn)

\* ComputeAndGet that stores with Store, as Compute does
ComputeAndGetStoreOverwrites(t) ==
    /\ pc[t] = "compute" /\ loc[t].op = "ComputeAndGet"
    /\ m' = Put(m, loc[t].key, loc[t].new)
    /\ Return(t, Computing(t, m'[loc[t].key], FALSE))
    /\ pc' = [pc EXCEPT ![t] = "idle"]
    /\ Effect(t, NoLoc, loc[t].key, "store", m')

ComputeAndGetStore(t) ==
    /\ pc[t] = "compute" /\ loc[t].op = "ComputeAndGet"
    /\ m' = LoadOrStoreMap(m, loc[t].key, loc[t].new)
    /\ Return(t, Computing(t, m'[loc[t].key], FALSE))
    /\ pc' = [pc EXCEPT ![t] = "idle"]
    /\ Effect(t, NoLoc, loc[t].key,
              IF Present(m, loc[t].key) THEN "none" ELSE "store", m')

ComputeAndLoadGet(t, k, fn) == ComputeRead(t, "ComputeAndLoad", k, fn)

\* ComputeAndLoad that stores over the value present
ComputeAndLoadStoreOverwrites(t) ==
    /\ pc[t] = "compute" /\ loc[t].op = "ComputeAndLoad"
    /\ m' = Put(m, loc[t].key, loc[t].new)
    /\ Return(t, Computing(t, m'[loc[t].key], Present(m, loc[t].key)))
    /\ pc' = [pc EXCEPT ![t] = "idle"]
    /\ Effect(t, NoLoc, loc[t].key, "store", m')

ComputeAndLoadStore(t) ==
    /\ pc[t] = "compute" /\ loc[t].op = "ComputeAndLoad"
    /\ m' = LoadOrStoreMap(m, loc[t].key, loc[t].new)
    /\ Return(t, Computing(t, m'[loc[t].key], Present(m, loc[t].key)))
    /\ pc' = [pc EXCEPT ![t] = "idle"]
    /\ Effect(t, NoLoc, loc[t].key,
              IF Present(m, loc[t].key) THEN "none" ELSE "store", m')

----------------------------------------------------------------------------
\* The traversals: m.data.Range with the callback of each method

Begun(op) ==
    [NoLoc EXCEPT !.op = op, !.cap = Reported(op, m), !.pre = DOMAIN m]

TraverseBegin(t, op) ==
    /\ pc[t] = "idle"
    /\ pc' = [pc EXCEPT ![t] = "range"]
    /\ loc' = [loc EXCEPT ![t] = Begun(op)]
    /\ NoReturn
    /\ UNCHANGED m

\* Range that goes on after the callback has returned false
CanVisitAfterStop(t, op, k) ==
    /\ pc[t] = "range" /\ loc[t].op = op
    /\ k \in DOMAIN loc[t].cap

\* Range calls the callback for a key it has not visited, until the callback
\* returns false
CanVisit(t, op, k) ==
    /\ pc[t] = "range" /\ loc[t].op = op
    /\ ~loc[t].stop
    /\ k \in DOMAIN loc[t].cap

Visited(l, k) == [l EXCEPT !.visited = @ \cup {k}, !.cap = Del(@, k)]

Exhausted(t, op) ==
    /\ pc[t] = "range" /\ loc[t].op = op
    /\ loc[t].stop \/ DOMAIN loc[t].cap = {}

\* what a traversal returns, with the keys present when it began and what
\* other callers did to each key while it ran
Traversed(t, val) ==
    [Ret(loc[t].op, 0, Zero, val, loc[t].stop)
        EXCEPT !.pre = loc[t].pre, !.intf = loc[t].intf]

TraverseReturn(t, r) ==
    /\ Return(t, r)
    /\ pc' = [pc EXCEPT ![t] = "idle"]
    /\ loc' = [loc EXCEPT ![t] = NoLoc]
    /\ UNCHANGED m

\* return f(key.(K), value.(V))
RangeBegin(t) == TraverseBegin(t, "Range")

RangeVisit(t, k, cont) ==
    /\ CanVisit(t, "Range", k)
    /\ loc' = [loc EXCEPT ![t] = [Visited(@, k) EXCEPT !.n = @ + 1,
                                                      !.stop = ~cont]]
    /\ NoReturn
    /\ UNCHANGED <<m, pc>>

RangeReturn(t) ==
    /\ Exhausted(t, "Range")
    /\ TraverseReturn(t, Traversed(t, loc[t].n))

LenBegin(t) == TraverseBegin(t, "Len")

LenVisit(t, k) ==
    /\ CanVisit(t, "Len", k)
    /\ loc' = [loc EXCEPT ![t] = [Visited(@, k) EXCEPT !.n = @ + 1]]
    /\ NoReturn
    /\ UNCHANGED <<m, pc>>

LenReturn(t) ==
    /\ Exhausted(t, "Len")
    /\ TraverseReturn(t, Traversed(t, loc[t].n))

KeysBegin(t) == TraverseBegin(t, "Keys")

\* Keys with a callback that appends the key twice
KeysVisitAppendsTwice(t, k) ==
    /\ CanVisit(t, "Keys", k)
    /\ loc' = [loc EXCEPT ![t] =
                  [Visited(@, k) EXCEPT !.seq = Append(Append(@, k), k)]]
    /\ NoReturn
    /\ UNCHANGED <<m, pc>>

KeysVisit(t, k) ==
    /\ CanVisit(t, "Keys", k)
    /\ loc' = [loc EXCEPT ![t] = [Visited(@, k) EXCEPT !.seq = Append(@, k)]]
    /\ NoReturn
    /\ UNCHANGED <<m, pc>>

KeysReturn(t) ==
    /\ Exhausted(t, "Keys")
    /\ TraverseReturn(t, [Traversed(t, Zero) EXCEPT !.seq = loc[t].seq])

ValuesBegin(t) == TraverseBegin(t, "Values")

ValuesVisit(t, k) ==
    /\ CanVisit(t, "Values", k)
    /\ loc' = [loc EXCEPT ![t] =
                  [Visited(@, k) EXCEPT !.seq = Append(@, loc[t].cap[k])]]
    /\ NoReturn
    /\ UNCHANGED <<m, pc>>

ValuesReturn(t) ==
    /\ Exhausted(t, "Values")
    /\ TraverseReturn(t, [Traversed(t, Zero) EXCEPT !.seq = loc[t].seq])

ClearBegin(t) == TraverseBegin(t, "Clear")

\* Clear with a callback that deletes nothing
ClearVisitKeeps(t, k) ==
    /\ CanVisit(t, "Clear", k)
    /\ loc' = [loc EXCEPT ![t] = Visited(@, k)]
    /\ NoReturn
    /\ UNCHANGED <<m, pc>>

\* Clear with a callback that returns false
ClearVisitStops(t, k) ==
    /\ CanVisit(t, "Clear", k)
    /\ m' = Del(m, k)
    /\ Effect(t, [Visited(loc[t], k) EXCEPT !.stop = TRUE], k,
              IF Present(m, k) THEN "del" ELSE "none", m')
    /\ NoReturn
    /\ UNCHANGED pc

\* the callback of Clear: m.data.Delete(key)
ClearVisit(t, k) ==
    /\ CanVisit(t, "Clear", k)
    /\ m' = Del(m, k)
    /\ Effect(t, Visited(loc[t], k), k,
              IF Present(m, k) THEN "del" ELSE "none", m')
    /\ NoReturn
    /\ UNCHANGED pc

ClearReturn(t) ==
    /\ Exhausted(t, "Clear")
    /\ TraverseReturn(t, Traversed(t, Zero))

\* fmt.Sprint(i) and "%v" of an int: the decimal digits
Digit(d) ==
    CASE d = 0 -> "0" [] d = 1 -> "1" [] d = 2 -> "2" [] d = 3 -> "3"
      [] d = 4 -> "4" [] d = 5 -> "5" [] d = 6 -> "6" [] d = 7 -> "7"
      [] d = 8 -> "8" [] d = 9 -> "9"

RECURSIVE ToStr(_)
ToStr(i) == IF i < 10 THEN Digit(i) ELSE ToStr(i \div 10) \o Digit(i % 10)

\* the entry formatted with "%v=%v"
EntryWithEquals(k, v) == ToStr(k) \o "=" \o ToStr(v)

\* fmt.Sprintf("%v: %v", key, value)
Entry(k, v) == ToStr(k) \o ": " \o ToStr(v)

RECURSIVE Join(_, _)
Join(ss, sep) ==
    IF ss = <<>> THEN ""
    ELSE IF Len(ss) = 1 THEN ss[1]
    ELSE ss[1] \o sep \o Join(Tail(ss), sep)

\* fmt.Sprintf("{%v}", strings.Join(toPrint, ", "))
Render(ss) == "{" \o Join(ss, ", ") \o "}"

StringBegin(t) == TraverseBegin(t, "String")

StringVisit(t, k) ==
    /\ CanVisit(t, "String", k)
    /\ loc' = [loc EXCEPT ![t] =
                  [Visited(@, k) EXCEPT
                      !.seq = Append(@, Entry(k, loc[t].cap[k]))]]
    /\ NoReturn
    /\ UNCHANGED <<m, pc>>

StringReturn(t) ==
    /\ Exhausted(t, "String")
    /\ TraverseReturn(t, [Traversed(t, Zero) EXCEPT !.str = Render(loc[t].seq)])

----------------------------------------------------------------------------
Atomic(t) ==
    \/ \E k \in Keys : Load(t, k)
    \/ \E k \in Keys : Get(t, k)
    \/ \E k \in Keys : Has(t, k)
    \/ \E k \in Keys : LoadAndDelete(t, k)
    \/ \E k \in Keys, v \in Values : Store(t, k, v)
    \/ \E k \in Keys, v \in Values : LoadOrStore(t, k, v)
    \/ \E k \in Keys, v \in Values : GetOrStore(t, k, v)
    \/ \E k \in Keys : Delete(t, k)
    \/ \E k \in Keys, v \in Values : Swap(t, k, v)
    \/ \E k \in Keys, o \in Values, v \in Values : CompareAndSwap(t, k, o, v)
    \/ \E k \in Keys, o \in Values : CompareAndDelete(t, k, o)

Computes(t) ==
    \/ \E k \in Keys, fn \in Fns : ComputeGet(t, k, fn)
    \/ ComputeStore(t)
    \/ \E k \in Keys, fn \in Fns : ComputeAndGetGet(t, k, fn)
    \/ ComputeAndGetStore(t)
    \/ \E k \in Keys, fn \in Fns : ComputeAndLoadGet(t, k, fn)
    \/ ComputeAndLoadStore(t)

Traversals(t) ==
    \/ RangeBegin(t)
    \/ \E k \in Keys, cont \in BOOLEAN : RangeVisit(t, k, cont)
    \/ RangeReturn(t)
    \/ LenBegin(t)
    \/ \E k \in Keys : LenVisit(t, k)
    \/ LenReturn(t)
    \/ KeysBegin(t)
    \/ \E k \in Keys : KeysVisit(t, k)
    \/ KeysReturn(t)
    \/ ValuesBegin(t)
    \/ \E k \in Keys : ValuesVisit(t, k)
    \/ ValuesReturn(t)
    \/ ClearBegin(t)
    \/ \E k \in Keys : ClearVisit(t, k)
    \/ ClearReturn(t)
    \/ StringBegin(t)
    \/ \E k \in Keys : StringVisit(t, k)
    \/ StringReturn(t)

\* Any goroutine calls any method at any time
Next == \E t \in Procs : Atomic(t) \/ Computes(t) \/ Traversals(t)

Spec == Init /\ [][Next]_vars

\* The goroutines call the single-step methods only
NextAtomic == \E t \in Procs : Atomic(t)

SpecAtomic == Init /\ [][NextAtomic]_vars

----------------------------------------------------------------------------
\* Scenarios

\* t has made no recorded call
Fresh(t) == \A i \in DOMAIN log : log[i].proc # t

\* every recorded call is a call of op on k
Same(op, k) == IF log = <<>> THEN TRUE ELSE log[1].op = op /\ log[1].key = k

\* every recorded call passes o as old
SameOld(o) == IF log = <<>> THEN TRUE ELSE log[1].old = o

\* Some stores set the map up.  Then every goroutine calls one and the same
\* method on one and the same key, at most once each, and nothing else runs:
\* LoadOrStore, CompareAndSwap with one and the same old, or LoadAndDelete.
InitOnce == InitRecording({"LoadOrStore", "CompareAndSwap", "LoadAndDelete"})

NextOnce ==
    \E t \in Procs, k \in Keys :
        \/ \E v \in Values : log = <<>> /\ Store(t, k, v)
        \/ \E v \in Values :
            Fresh(t) /\ Same("LoadOrStore", k) /\ LoadOrStore(t, k, v)
        \/ \E o \in Values, v \in Values :
            /\ Fresh(t) /\ Same("CompareAndSwap", k) /\ SameOld(o)
            /\ CompareAndSwap(t, k, o, v)
        \/ Fresh(t) /\ Same("LoadAndDelete", k) /\ LoadAndDelete(t, k)

SpecOnce == InitOnce /\ [][NextOnce]_vars

\* The goroutine that calls the method a scenario is about
Caller == CHOOSE t \in Procs : \A u \in Procs : t <= u

\* The goroutine that stores and deletes meanwhile.  Store and Delete are one
\* step each, so what several goroutines would do in some order this one does
\* in that order.
Other == CHOOSE t \in Procs : t # Caller

Busy == {t \in Procs : pc[t] # "idle"}

\* Some stores set the map up.  Then two goroutines call Compute, once each,
\* and nothing else runs; the calls are recorded.
InitComputeRace == InitRecording({"Compute"})

NextComputeRace ==
    \E t \in Procs :
        \/ \E k \in Keys, v \in Values :
            log = <<>> /\ Busy = {} /\ Store(t, k, v)
        \/ \E k \in Keys, fn \in Fns :
            Fresh(t) /\ Len(log) + Cardinality(Busy) < 2 /\ ComputeGet(t, k, fn)
        \/ ComputeStore(t)

SpecComputeRace == InitComputeRace /\ [][NextComputeRace]_vars

\* Caller calls Compute while Other stores and deletes
NextCompute ==
    \/ \E k \in Keys, v \in Values : Store(Other, k, v)
    \/ \E k \in Keys : Delete(Other, k)
    \/ \E k \in Keys, fn \in Fns : ComputeGet(Caller, k, fn)
    \/ ComputeStore(Caller)

SpecCompute == Init /\ [][NextCompute]_vars

\* Caller calls ComputeAndLoad while Other stores and deletes
NextComputeAndLoad ==
    \/ \E k \in Keys, v \in Values : Store(Other, k, v)
    \/ \E k \in Keys : Delete(Other, k)
    \/ \E k \in Keys, fn \in Fns : ComputeAndLoadGet(Caller, k, fn)
    \/ ComputeAndLoadStore(Caller)

SpecComputeAndLoad == Init /\ [][NextComputeAndLoad]_vars

\* The test: goroutines store under pairwise distinct keys, once each, and
\* the calls are recorded; after wg.Wait() has returned, Caller calls Len and
\* Get.
InitJoin == InitRecording({"Store"})

Joined == IF log = <<>> THEN FALSE ELSE log[Len(log)].op = "Join"

\* wg.Wait() returns: every Store that was started has returned
WaitGroupWait ==
    /\ ~Joined
    /\ log' = Append(log, Brief([NoRet EXCEPT !.op = "Join"]))
    /\ last' = NoRet
    /\ UNCHANGED <<m, pc, loc, rec>>

NextJoin ==
    \/ \E t \in Procs, k \in Keys, v \in Values :
        /\ ~Joined /\ Fresh(t)
        /\ \A i \in DOMAIN log : log[i].key # k
        /\ Store(t, k, v)
    \/ WaitGroupWait
    \/ Joined /\ LenBegin(Caller)
    \/ \E k \in Keys : LenVisit(Caller, k)
    \/ LenReturn(Caller)
    \/ \E k \in Keys : Joined /\ Get(Caller, k)

SpecJoin == InitJoin /\ [][NextJoin]_vars

\* Caller calls Clear while Other stores and deletes
ClearStep == (\E k \in Keys : ClearVisit(Caller, k)) \/ ClearReturn(Caller)

NextClear ==
    \/ \E k \in Keys, v \in Values : Store(Other, k, v)
    \/ \E k \in Keys : Delete(Other, k)
    \/ ClearBegin(Caller)
    \/ ClearStep

\* a goroutine that can take a step of Clear takes one in the end
SpecClear == Init /\ [][NextClear]_vars /\ WF_vars(ClearStep)

\* No concurrent writers: the goroutines store under distinct keys, one call
\* at a time, until Caller calls Clear; Caller calls Len, Keys, Values and
\* Has before and after.  The stores and the Clear are recorded.
InitCleared == InitRecording({"Store", "Clear"})

Cleared == IF log = <<>> THEN FALSE ELSE log[Len(log)].op = "Clear"

NextCleared ==
    \/ \E t \in Procs, k \in Keys, v \in Values :
        /\ ~Cleared /\ Busy = {}
        /\ \A i \in DOMAIN log : log[i].key # k
        /\ Store(t, k, v)
    \/ ~Cleared /\ ClearBegin(Caller)
    \/ \E k \in Keys : ClearVisit(Caller, k)
    \/ ClearReturn(Caller)
    \/ LenBegin(Caller)
    \/ \E k \in Keys : LenVisit(Caller, k)
    \/ LenReturn(Caller)
    \/ KeysBegin(Caller)
    \/ \E k \in Keys : KeysVisit(Caller, k)
    \/ KeysReturn(Caller)
    \/ ValuesBegin(Caller)
    \/ \E k \in Keys : ValuesVisit(Caller, k)
    \/ ValuesReturn(Caller)
    \/ \E k \in Keys : Has(Caller, k)

SpecCleared == InitCleared /\ [][NextCleared]_vars

\* Caller stores, Other stores and deletes, and both load; the stores and
\* deletes are recorded, MaxCalls of them at most.
InitStoreLoad == InitRecording({"Store", "Delete"})

NextStoreLoad ==
    \/ \E t \in {Caller, Other}, k \in Keys, v \in Values :
        Len(log) < MaxCalls /\ Store(t, k, v)
    \/ \E k \in Keys : Len(log) < MaxCalls /\ Delete(Other, k)
    \/ \E t \in {Caller, Other}, k \in Keys : Load(t, k)

SpecStoreLoad == InitStoreLoad /\ [][NextStoreLoad]_vars

\* Caller removes keys with Delete and LoadAndDelete, Other stores with
\* Store, LoadOrStore and Swap, and both load; the removals and the stores
\* are recorded, MaxCalls of them at most.
InitRemove ==
    InitRecording({"Delete", "LoadAndDelete", "Store", "LoadOrStore", "Swap"})

NextRemove ==
    \/ \E k \in Keys : Len(log) < MaxCalls /\ Delete(Caller, k)
    \/ \E k \in Keys : Len(log) < MaxCalls /\ LoadAndDelete(Caller, k)
    \/ \E k \in Keys, v \in Values : Len(log) < MaxCalls /\ Store(Other, k, v)
    \/ \E k \in Keys, v \in Values :
        Len(log) < MaxCalls /\ LoadOrStore(Other, k, v)
    \/ \E k \in Keys, v \in Values : Len(log) < MaxCalls /\ Swap(Other, k, v)
    \/ \E t \in {Caller, Other}, k \in Keys : Load(t, k)

SpecRemove == InitRemove /\ [][NextRemove]_vars

\* Caller calls Range with a visitor that returns true or false as it likes,
\* while Other stores and deletes
RangeStep ==
    \/ \E k \in Keys, cont \in BOOLEAN : RangeVisit(Caller, k, cont)
    \/ RangeReturn(Caller)

NextRange ==
    \/ \E k \in Keys, v \in Values : Store(Other, k, v)
    \/ \E k \in Keys : Delete(Other, k)
    \/ RangeBegin(Caller)
    \/ RangeStep

\* a goroutine that can take a step of Range takes one in the end
SpecRange == Init /\ [][NextRange]_vars /\ WF_vars(RangeStep)

\* Caller calls Len, Keys and Values while Other stores and deletes
NextTraverse ==
    \/ \E k \in Keys, v \in Values : Store(Other, k, v)
    \/ \E k \in Keys : Delete(Other, k)
    \/ LenBegin(Caller)
    \/ \E k \in Keys : LenVisit(Caller, k)
    \/ LenReturn(Caller)
    \/ KeysBegin(Caller)
    \/ \E k \in Keys : KeysVisit(Caller, k)
    \/ KeysReturn(Caller)
    \/ ValuesBegin(Caller)
    \/ \E k \in Keys : ValuesVisit(Caller, k)
    \/ ValuesReturn(Caller)

SpecTraverse == Init /\ [][NextTraverse]_vars

\* No concurrent writers: some stores set the map up, then Caller calls
\* Delete, MaxCalls times at most, and nothing else runs; the Deletes are
\* recorded.
InitDelete == InitRecording({"Delete"})

NextDelete ==
    \/ \E t \in Procs, k \in Keys, v \in Values : log = <<>> /\ Store(t, k, v)
    \/ \E k \in Keys : Len(log) < MaxCalls /\ Delete(Caller, k)

SpecDelete == InitDelete /\ [][NextDelete]_vars

\* Caller calls String while Other stores and deletes
NextString ==
    \/ \E k \in Keys, v \in Values : Store(Other, k, v)
    \/ \E k \in Keys : Delete(Other, k)
    \/ StringBegin(Caller)
    \/ \E k \in Keys : StringVisit(Caller, k)
    \/ StringReturn(Caller)

SpecString == Init /\ [][NextString]_vars

\* Caller calls ComputeAndGet and ComputeAndLoad while Other stores and
\* deletes
NextComputeKeep ==
    \/ \E k \in Keys, v \in Values : Store(Other, k, v)
    \/ \E k \in Keys : Delete(Other, k)
    \/ \E k \in Keys, fn \in Fns : ComputeAndGetGet(Caller, k, fn)
    \/ ComputeAndGetStore(Caller)
    \/ \E k \in Keys, fn \in Fns : ComputeAndLoadGet(Caller, k, fn)
    \/ ComputeAndLoadStore(Caller)

SpecComputeKeep == Init /\ [][NextComputeKeep]_vars

\* Caller calls Compute, ComputeAndGet and ComputeAndLoad while Other calls
\* the single-step methods that write
NextSingleKey ==
    \/ \E k \in Keys, v \in Values : Store(Other, k, v)
    \/ \E k \in Keys : Delete(Other, k)
    \/ \E k \in Keys : LoadAndDelete(Other, k)
    \/ \E k \in Keys, v \in Values : LoadOrStore(Other, k, v)
    \/ \E k \in Keys, v \in Values : GetOrStore(Other, k, v)
    \/ \E k \in Keys, v \in Values : Swap(Other, k, v)
    \/ \E k \in Keys, o \in Values, v \in Values : CompareAndSwap(Other, k, o, v)
    \/ \E k \in Keys, o \in Values : CompareAndDelete(Other, k, o)
    \/ \E k \in Keys, fn \in Fns : ComputeGet(Caller, k, fn)
    \/ ComputeStore(Caller)
    \/ \E k \in Keys, fn \in Fns : ComputeAndGetGet(Caller, k, fn)
    \/ ComputeAndGetStore(Caller)
    \/ \E k \in Keys, fn \in Fns : ComputeAndLoadGet(Caller, k, fn)
    \/ ComputeAndLoadStore(Caller)

SpecSingleKey == Init /\ [][NextSingleKey]_vars

\* Caller calls Load, Get, Has and LoadAndDelete while Other stores and
\* deletes
NextAbsent ==
    \/ \E k \in Keys, v \in Values : Store(Other, k, v)
    \/ \E k \in Keys : Delete(Other, k)
    \/ \E k \in Keys : Load(Caller, k)
    \/ \E k \in Keys : Get(Caller, k)
    \/ \E k \in Keys : Has(Caller, k)
    \/ \E k \in Keys : LoadAndDelete(Caller, k)

SpecAbsent == Init /\ [][NextAbsent]_vars

\* Caller calls CompareAndDelete while Other stores and deletes
NextCompareAndDelete ==
    \/ \E k \in Keys, v \in Values : Store(Other, k, v)
    \/ \E k \in Keys : Delete(Other, k)
    \/ \E k \in Keys, o \in Values : CompareAndDelete(Caller, k, o)

SpecCompareAndDelete == Init /\ [][NextCompareAndDelete]_vars

----------------------------------------------------------------------------
\* The claims

\* a and b agree on every key but k
SameExcept(a, b, k) ==
    \A x \in Keys \ {k} :
        /\ Present(a, x) <=> Present(b, x)
        /\ Present(a, x) => a[x] = b[x]

\* C1: when every goroutine calls LoadOrStore(k, v_i) on a key k that is
\* absent and nothing else touches k, exactly one call returns loaded=false,
\* every call returns the value that call passed, and k maps to that value.
C1_LoadOrStoreOnce ==
    (log # <<>> /\ log[1].op = "LoadOrStore" /\ ~log[1].had) =>
        LET k == log[1].key
            won == {i \in DOMAIN log : ~log[i].ok}
        IN  /\ Cardinality(won) = 1
            /\ \A w \in won :
                /\ \A i \in DOMAIN log : log[i].val = log[w].arg
                /\ Present(m, k) /\ m[k] = log[w].arg

C1_Witness ==
    /\ Len(log) = NumProcs
    /\ log[1].op = "LoadOrStore" /\ ~log[1].had
    /\ \A i \in DOMAIN log : i > 1 => log[i].ok /\ log[i].arg # log[1].arg

\* C2: Swap(k, new) completes for every key, present or absent: afterwards k
\* maps to new, and the call returns (previous value, true) when k was
\* present and (zero value, false) when it was absent.
C2_SwapCompletes ==
    last.op = "Swap" =>
        /\ ~last.panic
        /\ Present(m, last.key) /\ m[last.key] = last.arg
        /\ last.ok = Present(last.was, last.key)
        /\ last.val = ValueOr(last.was, last.key)

\* C3: CompareAndSwap(k, old, new) returns true iff k is present with a value
\* equal to old just before the step; after true k maps to new, after false
\* the map is unchanged (an absent k stays absent).  Of concurrent calls with
\* the same old and every new different from old, at most one returns true.
C3_CompareAndSwap ==
    /\ last.op = "CompareAndSwap" =>
        LET k == last.key
            hit == Present(last.was, k) /\ last.was[k] = last.old
        IN  /\ last.ok = hit
            /\ hit => Present(m, k) /\ m[k] = last.arg /\ SameExcept(m, last.was, k)
            /\ ~hit => m = last.was
    /\ (/\ log # <<>> /\ log[1].op = "CompareAndSwap"
        /\ \A i \in DOMAIN log : log[i].arg # log[i].old)
       => Cardinality({i \in DOMAIN log : log[i].ok}) <= 1

C3_Witness ==
    /\ Len(log) = NumProcs
    /\ log[1].op = "CompareAndSwap" /\ log[1].ok
    /\ \A i \in DOMAIN log : log[i].arg # log[i].old
    /\ \A i \in DOMAIN log : i > 1 => ~log[i].ok
    /\ m[log[1].key] = log[1].arg

\* C4: CompareAndDelete(k, old) returns true and removes k iff k is present
\* with a value equal to old; otherwise it returns false and the map is
\* unchanged.
C4_CompareAndDelete ==
    last.op = "CompareAndDelete" =>
        LET k == last.key
            hit == Present(last.was, k) /\ last.was[k] = last.old
        IN  /\ last.ok = hit
            /\ hit => ~Present(m, k) /\ SameExcept(m, last.was, k)
            /\ ~hit => m = last.was

C4_Witness ==
    /\ last.op = "CompareAndDelete" /\ last.ok
    /\ ~Present(m, last.key)
    /\ DOMAIN m # {}

\* C5: LoadAndDelete(k) reads and removes in one step: found is whether k
\* was present, the value returned with found=true is the value k held just
\* before the step, after the step k is absent and nothing else has changed;
\* of concurrent LoadAndDelete(k) calls at most one returns found=true.
C5_LoadAndDelete ==
    /\ last.op = "LoadAndDelete" =>
        LET k == last.key
        IN  /\ last.ok = Present(last.was, k)
            /\ last.val = ValueOr(last.was, k)
            /\ ~Present(m, k) /\ SameExcept(m, last.was, k)
    /\ (log # <<>> /\ log[1].op = "LoadAndDelete")
       => Cardinality({i \in DOMAIN log : log[i].ok}) <= 1

C5_Witness ==
    /\ Len(log) = NumProcs
    /\ log[1].op = "LoadAndDelete" /\ log[1].ok /\ log[1].val # Zero
    /\ \A i \in DOMAIN log : i > 1 => ~log[i].ok /\ log[i].val = Zero

\* C6: Compute is not atomic against other writers of its key: what it stores
\* is f of the value its Get read, whatever was written to the key between
\* its Get and its Store; so when two Compute(k, f) calls have read the same
\* old value, k maps to f(old) after the second returns: one update is lost.
C6_ComputeNotAtomic ==
    /\ last.op = "Compute" =>
        Present(m, last.key) /\ m[last.key] = Apply(last.fn, last.old)
    /\ \A i \in DOMAIN log, j \in DOMAIN log :
        (/\ i < j /\ last.op = "Compute" /\ last.proc = log[j].proc
         /\ log[i].key = log[j].key /\ log[i].fn = log[j].fn
         /\ log[i].old = log[j].old)
        => m[log[j].key] = Apply(log[j].fn, log[j].old)

\* both calls read the same old; the second stored f(old) over the f(old) the
\* first had stored, and f(f(old)) is another value
C6_Witness ==
    /\ Len(log) = 2 /\ last.op = "Compute" /\ last.proc = log[2].proc
    /\ log[1].key = log[2].key /\ log[1].fn = log[2].fn
    /\ log[1].old = log[2].old
    /\ last.intf[last.key] = "store"
    /\ Present(last.was, last.key)
    /\ last.was[last.key] = Apply(last.fn, last.old)
    /\ m[last.key] = Apply(last.fn, last.old)
    /\ m[last.key] # Apply(last.fn, Apply(last.fn, last.old))

\* C7 as stated: ComputeAndLoad returns loaded=true only when the value it
\* returns came from a store by another caller that raced in during the
\* call, and loaded=false when the value is the one this call stored.
C7_LoadedMeansRaced ==
    last.op = "ComputeAndLoad" =>
        /\ last.ok => last.intf[last.key] = "store"
        /\ ~last.ok => last.val = last.arg /\ m[last.key] = last.arg

\* C7, amended: ComputeAndLoad returns loaded=true exactly when k is present
\* at its LoadOrStore step, and then returns the value present and leaves the
\* map unchanged; without a store by another caller during the call that is
\* a value k had before the call began.  It returns loaded=false exactly when
\* k is absent at that step, and then the value returned is f(the value
\* read), which this call stored.
C7_LoadedMeansPresent ==
    last.op = "ComputeAndLoad" =>
        LET k == last.key
        IN  /\ last.ok = Present(last.was, k)
            /\ last.ok => last.val = last.was[k] /\ m = last.was
            /\ (last.ok /\ last.intf[k] # "store") => k \in last.pre
            /\ ~last.ok =>
                /\ last.val = last.arg /\ last.arg = Apply(last.fn, last.old)
                /\ Present(m, k) /\ m[k] = last.arg
                /\ SameExcept(m, last.was, k)

\* a call on a key that was present all along returns loaded=true
C7_Witness ==
    /\ last.op = "ComputeAndLoad" /\ last.ok
    /\ last.intf[last.key] = "none"
    /\ last.key \in last.pre
    /\ last.val # last.arg

\* C8: with no other writer of k between its Get and its Store, Compute(k, f)
\* reads the value k has (the zero value when k is absent) and stores f of
\* it: afterwards k maps to f(old), or to f(zero) when k was absent, and no
\* other key has changed.
C8_ComputeSequential ==
    (last.op = "Compute" /\ last.intf[last.key] = "none") =>
        LET k == last.key
        IN  /\ last.old = ValueOr(last.was, k)
            /\ Present(last.was, k) <=> k \in last.pre
            /\ Present(m, k) /\ m[k] = Apply(last.fn, ValueOr(last.was, k))
            /\ SameExcept(m, last.was, k)

C8_Witness ==
    /\ last.op = "Compute" /\ last.intf[last.key] = "none"
    /\ Present(last.was, last.key) /\ last.was[last.key] # Zero
    /\ m[last.key] = Apply(last.fn, last.was[last.key])
    /\ m[last.key] # last.was[last.key]

Stores == {i \in DOMAIN log : log[i].op = "Store"}

\* C9: after concurrent Store calls with pairwise distinct keys on an empty
\* map have all returned, the map holds exactly the keys stored, each with
\* the value stored for it, Len() returns the number of calls and Get of a
\* stored key returns its value.
C9_StoresThenJoin ==
    Joined =>
        /\ DOMAIN m = {log[i].key : i \in Stores}
        /\ \A i \in Stores : m[log[i].key] = log[i].arg
        /\ last.op = "Len" => last.val = Cardinality(Stores)
        /\ last.op = "Get" =>
            \A i \in Stores : log[i].key = last.key => last.val = log[i].arg

C9_Witness ==
    /\ Joined /\ Cardinality(Stores) >= 2
    /\ \E i \in Stores, j \in Stores : log[i].proc # log[j].proc
    /\ last.op = "Len" /\ last.val = Cardinality(Stores)

\* C10: a key that is present when Clear starts and that no other caller
\* stores while Clear runs is absent when Clear returns, and Clear returns.
C10_Clear ==
    /\ [](last.op = "Clear" =>
            \A k \in last.pre : last.intf[k] # "store" => ~Present(m, k))
    /\ (pc[Caller] = "range") ~> (pc[Caller] = "idle")

\* Clear has returned: it removed a key that was present when it started,
\* and a key that was stored while it ran remains
C10_Witness ==
    /\ last.op = "Clear"
    /\ \E k \in last.pre : last.intf[k] = "none" /\ ~Present(m, k)
    /\ \E k \in Keys : last.intf[k] = "store" /\ Present(m, k)

\* C11: with no concurrent writers, once Clear has returned every key is
\* absent: Len() returns 0, Keys() and Values() return empty sequences and
\* Has returns false.
C11_ClearThenEmpty ==
    Cleared =>
        /\ m = EmptyMap
        /\ last.op = "Len" => last.val = 0
        /\ last.op \in {"Keys", "Values"} => last.seq = <<>>
        /\ last.op = "Has" => ~last.ok

\* every key was stored before the Clear, and Len has returned 0 after it
C11_Witness ==
    /\ Cleared
    /\ {log[i].key : i \in Stores} = Keys
    /\ last.op = "Len" /\ last.val = 0


\* the recorded calls that stored under k or deleted k
Writes(k) == {i \in DOMAIN log : log[i].key = k /\ log[i].op \in {"Store", "Delete"}}

Latest(idx) == CHOOSE i \in idx : \A j \in idx : j <= i

\* C12: a Load(k), by the caller that stored or by another, returns (v, true)
\* when the latest call that wrote k before it is a Store(k, v); of two
\* stores under k one after the other it is the second whose value Load
\* returns.
C12_StoreThenLoad ==
    (last.op = "Load" /\ Writes(last.key) # {}) =>
        LET w == log[Latest(Writes(last.key))]
        IN  w.op = "Store" => last.ok /\ last.val = w.arg /\ ~last.panic

\* Caller has stored v1 and then v2 under k, and its Load(k) returns v2
C12_Witness ==
    /\ Len(log) = 2 /\ last.op = "Load"
    /\ \A i \in DOMAIN log :
        log[i].op = "Store" /\ log[i].key = last.key /\ log[i].proc = last.proc
    /\ log[1].arg # log[2].arg /\ log[2].arg # Zero
    /\ last.ok /\ last.val = log[2].arg


Removals == {"Delete", "LoadAndDelete"}

\* the recorded calls that took effect on k: the removals, and the stores
\* (a LoadOrStore that found k present stored nothing)
Effects(k) ==
    {i \in DOMAIN log :
        /\ log[i].key = k
        /\ log[i].op = "LoadOrStore" => ~log[i].ok}

\* C13: when Delete(k) or LoadAndDelete(k) returns k is absent, and a Load(k)
\* returns (zero value, false) as long as no store under k has taken effect
\* since the removal.
C13_RemovedThenLoad ==
    /\ last.op \in Removals => ~Present(m, last.key)
    /\ (last.op = "Load" /\ Effects(last.key) # {}) =>
        (log[Latest(Effects(last.key))].op \in Removals
            => ~last.ok /\ last.val = Zero /\ ~last.panic)

\* a key stored with a value other than zero has been removed, and the Load
\* that follows finds it absent
C13_Witness ==
    /\ Len(log) = 2 /\ last.op = "Load" /\ ~last.ok /\ last.val = Zero
    /\ log[1].op = "Store" /\ log[1].key = last.key /\ log[1].arg # Zero
    /\ log[2].op \in Removals /\ log[2].key = last.key /\ log[2].had


\* C14: Load, Get and Has never change the map; on an absent key Load, Get,
\* Has and LoadAndDelete return the zero value and false, without a panic,
\* and leave the map as it was.
C14_AbsentKey ==
    /\ last.op \in {"Load", "Get", "Has"} => m = last.was /\ ~last.panic
    /\ (/\ last.op \in {"Load", "Get", "Has", "LoadAndDelete"}
        /\ ~Present(last.was, last.key))
       => /\ last.val = Zero /\ ~last.ok /\ ~last.panic
          /\ m = last.was

\* LoadAndDelete of an absent key on a map that holds another key
C14_Witness ==
    /\ last.op = "LoadAndDelete" /\ ~Present(last.was, last.key)
    /\ last.val = Zero /\ ~last.ok
    /\ m = last.was /\ m # EmptyMap


\* the visitor of Caller's Range has returned false and Range has not returned
Stopped == pc[Caller] = "range" /\ loc[Caller].op = "Range" /\ loc[Caller].stop

\* C15: once the visitor has returned false Range does not call it again,
\* whatever other callers store and delete meanwhile, and Range returns.
C15_RangeStops ==
    /\ [][Stopped =>
            \/ pc'[Caller] = "idle"
            \/ /\ loc'[Caller].n = loc[Caller].n
               /\ loc'[Caller].visited = loc[Caller].visited
               /\ loc'[Caller].stop]_vars
    /\ Stopped ~> (pc[Caller] = "idle")

\* Range has returned after one call of the visitor, which returned false,
\* with another key left to visit and a store by Other during the call
C15_Witness ==
    /\ last.op = "Range" /\ last.ok /\ last.val = 1
    /\ Cardinality(last.pre) >= 2 /\ last.pre \subseteq DOMAIN m
    /\ \E k \in Keys : last.intf[k] = "store"


\* the keys no other caller stored or deleted during the traversal that has
\* just returned
Unmodified == {k \in Keys : last.intf[k] = "none"}

Quiet == Unmodified = Keys

Elems(seq) == {seq[i] : i \in DOMAIN seq}

\* C16: Keys returns no key twice; a key that is present and that nobody
\* stores or deletes during the traversal is reported exactly once, and one
\* that is absent and untouched is not reported; with no concurrent mutation
\* Keys returns exactly the keys present, Len their number and Values their
\* values.
C16_ExactlyOnce ==
    /\ last.op = "Keys" =>
        /\ \A i \in DOMAIN last.seq, j \in DOMAIN last.seq :
            i # j => last.seq[i] # last.seq[j]
        /\ \A k \in Unmodified : k \in Elems(last.seq) <=> k \in last.pre
        /\ Quiet => Elems(last.seq) = DOMAIN m
    /\ last.op = "Len" =>
        /\ last.val >= Cardinality(Unmodified \cap last.pre)
        /\ last.val <= Cardinality(Unmodified \cap last.pre)
                        + Cardinality(Keys \ Unmodified)
        /\ Quiet => last.val = Cardinality(DOMAIN m)
    /\ last.op = "Values" =>
        /\ Len(last.seq) >= Cardinality(Unmodified \cap last.pre)
        /\ Len(last.seq) <= Cardinality(Unmodified \cap last.pre)
                             + Cardinality(Keys \ Unmodified)
        /\ Quiet =>
            \E ks \in [DOMAIN last.seq -> DOMAIN m] :
                /\ Elems(ks) = DOMAIN m
                /\ Len(last.seq) = Cardinality(DOMAIN m)
                /\ \A i \in DOMAIN last.seq : last.seq[i] = m[ks[i]]

\* Keys has returned every key, each once, one of them stored by Other
\* during the traversal and another left alone
C16_Witness ==
    /\ last.op = "Keys" /\ Len(last.seq) = NumKeys
    /\ Elems(last.seq) = Keys
    /\ \E k \in last.pre : last.intf[k] = "none"
    /\ \E k \in Keys : last.intf[k] = "store"


\* C17: Delete(k) does not fail, leaves k absent and every other key as it
\* was; a Delete of an absent key changes nothing, so the second of two
\* Delete(k) calls in succession leaves the map as the first left it.
C17_DeleteIdempotent ==
    last.op = "Delete" =>
        /\ ~last.panic
        /\ ~Present(m, last.key) /\ SameExcept(m, last.was, last.key)
        /\ ~Present(last.was, last.key) => m = last.was
        /\ (Len(log) >= 2 /\ log[Len(log) - 1].key = last.key) => m = last.was

\* Delete(k) twice in succession on a map that held k and another key: the
\* first removed k, the second changed nothing
C17_Witness ==
    /\ Len(log) = 2 /\ last.op = "Delete"
    /\ log[1].key = last.key /\ log[2].key = last.key
    /\ log[1].had /\ ~log[2].had
    /\ m = last.was /\ m # EmptyMap


\* the orders in which the keys of mm can be listed, each once
Orders(mm) ==
    {ks \in [1..Cardinality(DOMAIN mm) -> DOMAIN mm] : Elems(ks) = DOMAIN mm}

\* the entries of mm in the order ks, as "key: value" separated by ", "
RECURSIVE Listing(_, _)
Listing(ks, mm) ==
    IF ks = <<>> THEN ""
    ELSE ToStr(ks[1]) \o ": " \o ToStr(mm[ks[1]])
         \o (IF Len(ks) > 1 THEN ", " ELSE "") \o Listing(Tail(ks), mm)

\* C18: with no concurrent mutation String returns "{", the entries of the
\* map as "key: value", each once, in some order, separated by ", ", and
\* "}"; the empty map renders as "{}".
C18_StringRendering ==
    (last.op = "String" /\ Quiet) =>
        /\ \E ks \in Orders(m) : last.str = "{" \o Listing(ks, m) \o "}"
        /\ m = EmptyMap => last.str = "{}"

\* String has returned the entries of a map that holds every key
C18_Witness ==
    /\ last.op = "String" /\ Quiet
    /\ DOMAIN m = Keys /\ \E k \in Keys : m[k] # Zero
    /\ \E ks \in Orders(m) : last.str = "{" \o Listing(ks, m) \o "}"


\* C19: ComputeAndGet and ComputeAndLoad never store over a value: when k is
\* present at their store step the map stays as it is and they return the
\* value present (ComputeAndLoad with loaded=true); only when k is absent at
\* that step do they store f(the value read) and return it (loaded=false).
C19_NeverOverwrite ==
    last.op \in {"ComputeAndGet", "ComputeAndLoad"} =>
        LET k == last.key
        IN  IF Present(last.was, k)
            THEN /\ m = last.was
                 /\ last.val = last.was[k]
                 /\ last.op = "ComputeAndLoad" => last.ok
            ELSE /\ m = Put(last.was, k, Apply(last.fn, last.old))
                 /\ last.val = Apply(last.fn, last.old)
                 /\ ~last.ok

\* a ComputeAndGet on a key present all along, with nobody else writing it:
\* the value stays, and f of it, another value, is neither stored nor returned
C19_Witness ==
    /\ last.op = "ComputeAndGet" /\ last.intf[last.key] = "none"
    /\ last.key \in last.pre /\ Present(m, last.key)
    /\ last.val = m[last.key]
    /\ m[last.key] # Apply(last.fn, m[last.key])


SingleKeyOps ==
    {"Store", "Delete", "LoadAndDelete", "LoadOrStore", "GetOrStore", "Swap",
     "CompareAndSwap", "CompareAndDelete", "Compute", "ComputeAndGet",
     "ComputeAndLoad"}

\* C20: the step by which a single-key method on k takes effect leaves the
\* presence and the value of every other key as they were, in every
\* interleaving; in every state each key present maps to one value.
C20_Frame ==
    /\ last.op \in SingleKeyOps => SameExcept(m, last.was, last.key)
    /\ DOMAIN m \subseteq Keys
    /\ \A k \in DOMAIN m : m[k] \in Values

\* a Compute whose key Other stored between its Get and its Store has changed
\* its key and left another key, which holds a value other than zero, alone
C20_Witness ==
    /\ last.op = "Compute" /\ last.intf[last.key] = "store"
    /\ m # last.was
    /\ \E x \in DOMAIN m \ {last.key} :
        Present(last.was, x) /\ m[x] = last.was[x] /\ m[x] # Zero

====
